---- MODULE Spec2Model ----
(***************************************************************************)
(* Foodgram backend: the relation rows Favorite, Cart and Subscriptions,   *)
(* the toggle handlers that create and delete them, the subscriptions      *)
(* list, the recipe list filter, the shopping list, the ingredient search, *)
(* the tag and recipe validation, the recipe permissions and the deletion  *)
(* of users and recipes.                                                   *)
(***************************************************************************)
EXTENDS Integers, FiniteSets, Sequences, TLC

\* ------------------------------------------------------------------ bounds

\* Rows ever inserted, over all tables (the primary-key sequences never reuse
\* an id, so the tables' histories are unbounded without it).
MaxInserts == 3

\* The stored users and recipes; a request may also name an id that is not
\* stored.
UserIds == {1, 2}
RecipeIds == {1, 2}
RequestUserIds == UserIds \cup {Cardinality(UserIds) + 1}
RequestRecipeIds == RecipeIds \cup {Cardinality(RecipeIds) + 1}

\* The two requests in flight at once.
Procs == {"p1", "p2"}

\* request.user of an unauthenticated request (user.is_anonymous).
AnonymousUser == 0

\* ------------------------------------------------------------------ enums

ADD_METHODS == {"GET", "POST"}
DEL_METHODS == {"DELETE"}
ACTION_METHODS == ADD_METHODS \cup DEL_METHODS

\* The relation models; Favorite and Cart are the m2m_model of add_del_obj.
Kinds == {"Favorite", "Cart", "Subscriptions"}
RecipeKinds == {"Favorite", "Cart"}

HTTP_200_OK == 200
HTTP_201_CREATED == 201
HTTP_204_NO_CONTENT == 204
HTTP_400_BAD_REQUEST == 400
HTTP_401_UNAUTHORIZED == 401
HTTP_403_FORBIDDEN == 403
HTTP_404_NOT_FOUND == 404
\* An exception no handler catches (IntegrityError, AttributeError).
HTTP_500_SERVER_ERROR == 500

\* ------------------------------------------------------------------ state

VARIABLES
    users,      \* ids of the MyUser rows
    recipe,     \* Recipe rows: id -> [author, tags]
    tag,        \* Tag rows: id -> [slug]
    rows,       \* kind -> set of relation rows [id, user, obj]
    nextId,     \* kind -> next value of the table's primary-key sequence
    response,   \* the last request and its response
    prevRows,   \* the relation rows as the last request found them
    proc,       \* the requests in flight: their position and what they read
    params,     \* query parameters or data of the last request
    profile,    \* MyUser rows: id -> [is_staff, active]
    ingredient, \* Ingredient rows: id -> [name, measurement_unit]
    amount,     \* AmountIngredient rows [recipe, ingredients, amount]
    prevRecipe, \* the Recipe rows as the last request found them
    prevAmount, \* the AmountIngredient rows as the last request found them
    lastAdded   \* kind -> the (user, recipe) pairs whose last successful
                \* toggle was an add

vars == <<users, recipe, tag, rows, nextId, response, prevRows, proc, params,
          profile, ingredient, amount, prevRecipe, prevAmount, lastAdded>>

Row(i, u, o) == [id |-> i, user |-> u, obj |-> o]

NoBody == <<>>
NoResponse ==
    [view |-> "none", method |-> "none", user |-> 0, obj |-> 0,
     status |-> 0, body |-> NoBody]
Response(v, m, u, o, s, b) ==
    [view |-> v, method |-> m, user |-> u, obj |-> o, status |-> s, body |-> b]

Idle ==
    [pc |-> "idle", view |-> "none", method |-> "none", user |-> 0, obj |-> 0,
     seen |-> {}, status |-> 0]

NoParams ==
    [tags |-> {}, author |-> <<>>, is_in_shopping_cart |-> "",
     is_favorited |-> ""]

Inserted == (nextId["Favorite"] - 1) + (nextId["Cart"] - 1)
            + (nextId["Subscriptions"] - 1)

\* The tags and recipes every specification starts from.
TagRows == (1 :> [slug |-> "breakfast"]) @@ (2 :> [slug |-> "lunch"])
RecipeRows ==
    (1 :> [author |-> 1, tags |-> {1, 2}]) @@ (2 :> [author |-> 2, tags |-> {2}])

\* The users' flags: the first user is an ordinary active user, the second
\* is staff.
ProfileRows ==
    (1 :> [is_staff |-> FALSE, active |-> TRUE])
    @@ (2 :> [is_staff |-> TRUE, active |-> TRUE])

\* The ingredients and the amounts of them the recipes need: both recipes
\* take sugar by the gram, the second also takes sugar by the spoon.
IngredientRows ==
    (1 :> [name |-> "sugar", measurement_unit |-> "g"])
    @@ (2 :> [name |-> "salt", measurement_unit |-> "g"])
    @@ (3 :> [name |-> "sugar", measurement_unit |-> "spoon"])
AmountIngredientRows ==
    {[recipe |-> 1, ingredients |-> 1, amount |-> 200],
     [recipe |-> 1, ingredients |-> 2, amount |-> 5],
     [recipe |-> 2, ingredients |-> 1, amount |-> 50],
     [recipe |-> 2, ingredients |-> 3, amount |-> 2]}

\* ------------------------------------------------------------- constraints

UniqueConstraintOff(table, u, o) == TRUE

\* UniqueConstraint(fields=('recipe', 'user')) of Favorite and Cart,
\* UniqueConstraint(fields=('author', 'user')) of Subscriptions: holds of a
\* new row when no stored row has the same pair.
UniqueConstraint(table, u, o) ==
    \A r \in table : ~(r.user = u /\ r.obj = o)

CheckConstraintOff(u, author) == TRUE

\* CheckConstraint(check=~Q(author=F('user'))) of Subscriptions.
CheckConstraint(u, author) == author # u

\* Model.save() of a new relation row: the INSERT is refused (IntegrityError)
\* when a constraint of the table fails.
CanSave(k, u, o) ==
    /\ UniqueConstraint(rows[k], u, o)
    /\ k = "Subscriptions" => CheckConstraint(u, o)

Save(k, u, o) ==
    /\ rows' = [rows EXCEPT ![k] = @ \cup {Row(nextId[k], u, o)}]
    /\ nextId' = [nextId EXCEPT ![k] = @ + 1]

DeleteOfUser(k, r) ==
    /\ rows' = [rows EXCEPT ![k] = {x \in @ : x.user # r.user}]
    /\ UNCHANGED nextId

\* instance.delete(): DELETE ... WHERE id = pk.
Delete(k, r) ==
    /\ rows' = [rows EXCEPT ![k] = {x \in @ : x.id # r.id}]
    /\ UNCHANGED nextId

\* --------------------------------------------------------- relation toggle

get_object_or_404_found(ids, id) == TRUE

\* get_object_or_404(queryset, id=id): TRUE when the object is found.
get_object_or_404(ids, id) == id \in ids

\* m2m_model.objects.filter(recipe=recipe, user=user)
m2m_instance(k, u, o) == {r \in rows[k] : r.obj = o /\ r.user = u}

\* The two conditions of add_del_obj, on the method and the rows the filter
\* returned: which statement runs.
add_del_branch(method, instance) ==
    IF method \in ADD_METHODS /\ instance = {} THEN "save"
    ELSE IF method \in DEL_METHODS /\ instance # {} THEN "delete"
    ELSE "bad_request"

\* AddDelViewMixin.add_del_obj, called by RecipeViewSet.favorite (Favorite)
\* and RecipeViewSet.shopping_cart (Cart) for an authenticated user.
add_del_obj(k, method, u, recipe_id) ==
    LET instance == m2m_instance(k, u, recipe_id)
        branch == add_del_branch(method, instance)
    IN
    IF ~get_object_or_404(DOMAIN recipe, recipe_id)
    THEN /\ response' = Response(k, method, u, recipe_id,
                                 HTTP_404_NOT_FOUND, NoBody)
         /\ UNCHANGED <<rows, nextId>>
    ELSE IF branch = "save"
    THEN IF CanSave(k, u, recipe_id)
         THEN /\ Inserted < MaxInserts
              /\ Save(k, u, recipe_id)
              /\ response' = Response(k, method, u, recipe_id,
                                      HTTP_201_CREATED, <<recipe_id>>)
         ELSE /\ response' = Response(k, method, u, recipe_id,
                                      HTTP_500_SERVER_ERROR, NoBody)
              /\ UNCHANGED <<rows, nextId>>
    ELSE IF branch = "delete"
    THEN /\ \E r \in instance : Delete(k, r)
         /\ response' = Response(k, method, u, recipe_id,
                                 HTTP_204_NO_CONTENT, NoBody)
    ELSE /\ response' = Response(k, method, u, recipe_id,
                                 HTTP_400_BAD_REQUEST, NoBody)
         /\ UNCHANGED <<rows, nextId>>

\* The attributes and related managers MyUser has: its fields and the
\* related_name of each ForeignKey that points at it.
MyUserAttributes ==
    {"email", "username", "first_name", "last_name", "password", "active",
     "subscribers", "subscriptions", "recipes", "favorites", "carts"}

\* UserViewSet.subscribe: the author is looked up first; the next statement
\* reads user.subscribe, which MyUser does not have (AttributeError).
subscribe(method, u, id) ==
    /\ UNCHANGED <<rows, nextId>>
    /\ IF ~get_object_or_404(users, id)
       THEN response' = Response("Subscriptions", method, u, id,
                                 HTTP_404_NOT_FOUND, NoBody)
       ELSE /\ "subscribe" \notin MyUserAttributes
            /\ response' = Response("Subscriptions", method, u, id,
                                    HTTP_500_SERVER_ERROR, NoBody)

\* UserViewSet.subscriptions: 401 for an anonymous user; otherwise it reads
\* user.subscribe as well.
subscriptions(u) ==
    /\ UNCHANGED <<rows, nextId>>
    /\ IF u = AnonymousUser
       THEN response' = Response("subscriptions", "GET", u, 0,
                                 HTTP_401_UNAUTHORIZED, NoBody)
       ELSE /\ "subscribe" \notin MyUserAttributes
            /\ response' = Response("subscriptions", "GET", u, 0,
                                    HTTP_500_SERVER_ERROR, NoBody)

\* Subscriptions(author=a, user=u).save(): the model's own way to a row
\* (admin site, shell), under the constraints of Subscriptions.Meta.
SubscriptionsSave(u, a) ==
    /\ CanSave("Subscriptions", u, a)
    /\ Inserted < MaxInserts
    /\ Save("Subscriptions", u, a)
    /\ response' = Response("Subscriptions.save", "none", u, a, 0, NoBody)

\* The pairs the rows of the recipe kinds link: each was added last.
AddedPairs(table) ==
    [k \in RecipeKinds |-> {<<r.user, r.obj>> : r \in table[k]}]

\* The pairs added last, after a request was answered with `answer`: a 201
\* of a recipe toggle adds its pair, a 204 removes it.
Toggled(answer) ==
    IF answer.view \in RecipeKinds /\ answer.status = HTTP_201_CREATED
    THEN [lastAdded EXCEPT ![answer.view] = @ \cup {<<answer.user, answer.obj>>}]
    ELSE IF answer.view \in RecipeKinds
            /\ answer.status = HTTP_204_NO_CONTENT
    THEN [lastAdded EXCEPT ![answer.view] = @ \ {<<answer.user, answer.obj>>}]
    ELSE lastAdded

\* ---------------------------------------------------------- specification

Init ==
    /\ users = UserIds
    /\ recipe = RecipeRows
    /\ tag = TagRows
    /\ rows = [k \in Kinds |-> {}]
    /\ nextId = [k \in Kinds |-> 1]
    /\ response = NoResponse
    /\ prevRows = rows
    /\ proc = [p \in Procs |-> Idle]
    /\ params = NoParams
    /\ profile = ProfileRows
    /\ ingredient = IngredientRows
    /\ amount = AmountIngredientRows
    /\ prevRecipe = recipe
    /\ prevAmount = amount
    /\ lastAdded = AddedPairs(rows)

\* One request is served at a time; the rows it found are remembered.
Served ==
    /\ prevRows' = rows
    /\ prevRecipe' = recipe
    /\ prevAmount' = amount
    /\ lastAdded' = Toggled(response')
    /\ UNCHANGED <<users, recipe, tag, proc, params, profile, ingredient,
                   amount>>

Favorite ==
    \E m \in ACTION_METHODS, u \in UserIds, pk \in RequestRecipeIds :
        add_del_obj("Favorite", m, u, pk) /\ Served

ShoppingCart ==
    \E m \in ACTION_METHODS, u \in UserIds, pk \in RequestRecipeIds :
        add_del_obj("Cart", m, u, pk) /\ Served

Subscribe ==
    \E m \in ACTION_METHODS, u \in UserIds, id \in RequestUserIds :
        subscribe(m, u, id) /\ Served

ListSubscriptions ==
    \E u \in UserIds \cup {AnonymousUser} :
        subscriptions(u) /\ Served

CreateSubscription ==
    \E u \in UserIds, a \in UserIds :
        SubscriptionsSave(u, a) /\ Served

Next ==
    \/ Favorite
    \/ ShoppingCart
    \/ Subscribe
    \/ ListSubscriptions
    \/ CreateSubscription

Spec == Init /\ [][Next]_vars

\* ------------------------------------------------ two requests in flight

\* add_del_obj up to its first write: the lookup of the recipe and the one
\* SELECT that evaluates m2m_instance. A request that has nothing to write
\* is answered here.
add_del_obj_read(p, k, method, u, recipe_id) ==
    LET instance == m2m_instance(k, u, recipe_id)
        branch == add_del_branch(method, instance)
        request == [Idle EXCEPT !.view = k, !.method = method, !.user = u,
                                !.obj = recipe_id]
    IN
    /\ proc[p].pc = "idle"
    /\ proc' = [proc EXCEPT ![p] =
            IF ~get_object_or_404(DOMAIN recipe, recipe_id)
            THEN [request EXCEPT !.pc = "done", !.status = HTTP_404_NOT_FOUND]
            ELSE IF branch = "bad_request"
            THEN [request EXCEPT !.pc = "done",
                                 !.status = HTTP_400_BAD_REQUEST]
            ELSE [request EXCEPT !.pc = branch, !.seen = instance]]
    /\ UNCHANGED <<rows, nextId>>

\* The write of add_del_obj: m2m_model(...).save() or
\* m2m_instance[0].delete() on the row read before, and the response.
add_del_obj_write(p) ==
    LET k == proc[p].view IN
    \/ /\ proc[p].pc = "save"
       /\ IF CanSave(k, proc[p].user, proc[p].obj)
          THEN /\ Save(k, proc[p].user, proc[p].obj)
               /\ proc' = [proc EXCEPT ![p].pc = "done",
                                       ![p].status = HTTP_201_CREATED]
          ELSE /\ UNCHANGED <<rows, nextId>>
               /\ proc' = [proc EXCEPT ![p].pc = "done",
                                       ![p].status = HTTP_500_SERVER_ERROR]
    \/ /\ proc[p].pc = "delete"
       /\ \E r \in proc[p].seen : Delete(k, r)
       /\ proc' = [proc EXCEPT ![p].pc = "done",
                               ![p].status = HTTP_204_NO_CONTENT]

\* The stored rows two requests may find: nothing, or one Favorite or Cart
\* row.
ConcInit ==
    /\ users = UserIds
    /\ recipe = RecipeRows
    /\ tag = TagRows
    /\ \E k0 \in RecipeKinds :
       \E table \in {{}} \cup {{Row(1, u, o)} : u \in UserIds, o \in RecipeIds} :
           rows = [k \in Kinds |-> IF k = k0 THEN table ELSE {}]
    /\ nextId = [k \in Kinds |-> Cardinality(rows[k]) + 1]
    /\ response = NoResponse
    /\ prevRows = rows
    /\ proc = [p \in Procs |-> Idle]
    /\ params = NoParams
    /\ profile = ProfileRows
    /\ ingredient = IngredientRows
    /\ amount = AmountIngredientRows
    /\ prevRecipe = recipe
    /\ prevAmount = amount
    /\ lastAdded = AddedPairs(rows)

InFlight ==
    UNCHANGED <<users, recipe, tag, response, prevRows, params, profile,
                ingredient, amount, prevRecipe, prevAmount,
                       lastAdded>>

ConcRead ==
    \E p \in Procs, k \in RecipeKinds, m \in ACTION_METHODS,
       u \in UserIds, pk \in RequestRecipeIds :
        add_del_obj_read(p, k, m, u, pk) /\ InFlight

ConcWrite ==
    \E p \in Procs : add_del_obj_write(p) /\ InFlight

ConcNext ==
    \/ ConcRead
    \/ ConcWrite

SpecConc == ConcInit /\ [][ConcNext]_vars

\* ------------------------------------------------------ recipe list filter

\* The tokens a tri-state query parameter is compared with.
SYMBOL_TRUE_SEARCH == {"1", "true"}
SYMBOL_FALSE_SEARCH == {"0", "false"}

RECURSIVE Repeat(_, _)
Repeat(x, n) == IF n = 0 THEN <<>> ELSE <<x>> \o Repeat(x, n - 1)

\* The rows of a JOIN: every recipe of the queryset once per related row
\* that matches, count[r] of them.
RECURSIVE JoinRows(_, _)
JoinRows(items, count) ==
    IF items = <<>> THEN <<>>
    ELSE Repeat(Head(items), count[Head(items)])
         \o JoinRows(Tail(items), count)

\* SELECT DISTINCT: a recipe already listed is dropped.
RECURSIVE Distinct(_)
Distinct(items) ==
    IF items = <<>> THEN <<>>
    ELSE LET front == Distinct(SubSeq(items, 1, Len(items) - 1))
             last == items[Len(items)]
         IN  IF \E i \in DOMAIN front : front[i] = last
             THEN front ELSE Append(front, last)

\* Recipe.Meta.ordering = ('-pub_date',): the newest recipe, the one with the
\* greatest id, comes first.
RECURSIVE NewestFirst(_)
NewestFirst(ids) ==
    IF ids = {} THEN <<>>
    ELSE LET newest == CHOOSE r \in ids : \A x \in ids : x <= r
         IN  <<newest>> \o NewestFirst(ids \ {newest})

\* RecipeViewSet.queryset
RecipeQueryset == [items |-> NewestFirst(DOMAIN recipe), distinct |-> FALSE]

tags__slug__in_join(q, tags) ==
    [q EXCEPT !.items =
        JoinRows(q.items,
            [r \in DOMAIN recipe |->
                Cardinality({t \in recipe[r].tags : tag[t].slug \in tags})])]

\* queryset.filter(tags__slug__in=tags).distinct()
tags__slug__in(q, tags) ==
    [items |-> JoinRows(q.items,
                   [r \in DOMAIN recipe |->
                       Cardinality({t \in recipe[r].tags : tag[t].slug \in tags})]),
     distinct |-> TRUE]

\* queryset.filter(author=author)
author_is(q, author) ==
    [q EXCEPT !.items =
        JoinRows(q.items, [r \in DOMAIN recipe |->
                              IF recipe[r].author = author THEN 1 ELSE 0])]

filter_related_user_any(q, k, u) == q

\* queryset.filter(cart__user=user), queryset.filter(favorite__user=user):
\* the JOIN with the rows of kind k of that user.
filter_related_user(q, k, u) ==
    [q EXCEPT !.items =
        JoinRows(q.items, [r \in DOMAIN recipe |->
                              Cardinality(m2m_instance(k, u, r))])]

exclude_related_user_none(q, k, u) == q

\* queryset.exclude(cart__user=user), queryset.exclude(favorite__user=user):
\* NOT (id IN (SELECT recipe_id ... WHERE user_id = user)).
exclude_related_user(q, k, u) ==
    [q EXCEPT !.items =
        JoinRows(q.items, [r \in DOMAIN recipe |->
                              IF m2m_instance(k, u, r) = {} THEN 1 ELSE 0])]

\* What evaluating the queryset returns.
Evaluate(q) == IF q.distinct THEN Distinct(q.items) ELSE q.items

\* RecipeViewSet.get_queryset
get_queryset(u, p) ==
    LET q0 == RecipeQueryset
        q1 == IF p.tags # {} THEN tags__slug__in(q0, p.tags) ELSE q0
        q2 == IF p.author # <<>> THEN author_is(q1, p.author[1]) ELSE q1
        q3 == IF p.is_in_shopping_cart \in SYMBOL_TRUE_SEARCH
              THEN filter_related_user(q2, "Cart", u)
              ELSE IF p.is_in_shopping_cart \in SYMBOL_FALSE_SEARCH
              THEN exclude_related_user(q2, "Cart", u)
              ELSE q2
        q4 == IF p.is_favorited \in SYMBOL_TRUE_SEARCH
              THEN filter_related_user(q3, "Favorite", u)
              ELSE q3
        q5 == IF p.is_favorited \in SYMBOL_FALSE_SEARCH
              THEN exclude_related_user(q4, "Favorite", u)
              ELSE q4
    IN  IF u = AnonymousUser THEN q2 ELSE q5

\* The stored rows of a set of (user, recipe) pairs.
RowsOf(pairs) ==
    {Row((pr[1] - 1) * Cardinality(RecipeIds) + pr[2], pr[1], pr[2]) :
        pr \in pairs}

\* The favorites and carts the recipe list is asked under: any of the first
\* user's pairs, and one pair of the other user.
FavoritePairs == ({1} \X RecipeIds) \cup {<<2, 2>>}
CartPairs == ({1} \X RecipeIds) \cup {<<2, 1>>}

FilterInit ==
    /\ users = UserIds
    /\ recipe = RecipeRows
    /\ tag = TagRows
    /\ \E fav \in SUBSET FavoritePairs, cart \in SUBSET CartPairs :
           rows = [k \in Kinds |->
                      IF k = "Favorite" THEN RowsOf(fav)
                      ELSE IF k = "Cart" THEN RowsOf(cart) ELSE {}]
    /\ nextId = [k \in Kinds |->
                    Cardinality(UserIds) * Cardinality(RecipeIds) + 1]
    /\ response = NoResponse
    /\ prevRows = rows
    /\ proc = [p \in Procs |-> Idle]
    /\ params = NoParams
    /\ profile = ProfileRows
    /\ ingredient = IngredientRows
    /\ amount = AmountIngredientRows
    /\ prevRecipe = recipe
    /\ prevAmount = amount
    /\ lastAdded = AddedPairs(rows)

Tokens == SYMBOL_TRUE_SEARCH \cup SYMBOL_FALSE_SEARCH \cup {"", "yes"}

ListRecipes ==
    \E u \in {AnonymousUser, 1},
       tags \in {{}, {"breakfast"}, {"lunch", "breakfast"}, {"dinner"}},
       author \in {<<>>} \cup {<<a>> : a \in {1, Cardinality(UserIds) + 1}},
       in_cart \in Tokens, favorited \in Tokens :
        /\ response.view = "none"
        /\ params' = [tags |-> tags, author |-> author,
                      is_in_shopping_cart |-> in_cart,
                      is_favorited |-> favorited]
        /\ response' = Response("recipes", "GET", u, 0, HTTP_200_OK,
                                Evaluate(get_queryset(u, params')))
        /\ UNCHANGED <<users, recipe, tag, rows, nextId, prevRows, proc,
                       profile, ingredient, amount, prevRecipe, prevAmount,
                       lastAdded>>

FilterNext == ListRecipes

SpecFilter == FilterInit /\ [][FilterNext]_vars

\* ----------------------------------------------------------- shopping list

RECURSIVE Sum(_)
\* Sum('amount') over AmountIngredient rows.
Sum(amounts) ==
    IF amounts = {} THEN 0
    ELSE LET a == CHOOSE x \in amounts : TRUE
         IN  a.amount + Sum(amounts \ {a})

carts_exists_any(u) == rows["Cart"] # {}

\* user.carts.exists()
carts_exists(u) == \E r \in rows["Cart"] : r.user = u

\* user.carts.values('id'): the primary keys of the user's Cart rows.
carts_values_id(u) == {r.id : r \in {x \in rows["Cart"] : x.user = u}}

\* AmountIngredient.objects.filter(recipe__in=ids)
\*     .values(ingredient=F('ingredients__name'),
\*             measure=F('ingredients__measurement_unit'))
\*     .annotate(amount=Sum('amount')):
\* one line per (name, unit) of the rows whose recipe id is in ids.
annotate_amount(ids) ==
    LET picked == {a \in amount : a.recipe \in ids}
        key(a) == <<ingredient[a.ingredients].name,
                    ingredient[a.ingredients].measurement_unit>>
    IN  {[ingredient |-> g[1], measure |-> g[2],
          amount |-> Sum({a \in picked : key(a) = g})] :
            g \in {key(a) : a \in picked}}

\* RecipeViewSet.download_shopping_cart; the body is the set of ingredient
\* lines of the text file. An anonymous user has no `carts`
\* (AttributeError).
download_shopping_cart(u) ==
    /\ UNCHANGED <<rows, nextId>>
    /\ IF u = AnonymousUser
       THEN response' = Response("download_shopping_cart", "GET", u, 0,
                                 HTTP_500_SERVER_ERROR, NoBody)
       ELSE IF ~carts_exists(u)
       THEN response' = Response("download_shopping_cart", "GET", u, 0,
                                 HTTP_400_BAD_REQUEST, NoBody)
       ELSE response' = Response("download_shopping_cart", "GET", u, 0,
                                 HTTP_200_OK,
                                 annotate_amount(carts_values_id(u)))

\* ------------------------------------------------ recipes and their owners

SAFE_METHODS == {"GET", "HEAD", "OPTIONS"}
UPDATE_METHODS == {"PUT", "PATCH"}

\* IsAuthenticatedOrReadOnly.has_permission, the base of
\* AuthorStaffOrReadOnly.
has_permission(method, u) == method \in SAFE_METHODS \/ u # AnonymousUser

has_object_permission_authenticated(method, u, obj) ==
    method = "GET" \/ u # AnonymousUser

\* AuthorStaffOrReadOnly.has_object_permission
has_object_permission(method, u, obj) ==
    \/ method = "GET"
    \/ /\ u # AnonymousUser
       /\ profile[u].active
       /\ (u = obj.author \/ profile[u].is_staff)

\* The status of a denied request: 403, or 401 when the request carried no
\* credentials and the authentication scheme asks for them.
Denied(u) ==
    IF u = AnonymousUser THEN {HTTP_401_UNAUTHORIZED, HTTP_403_FORBIDDEN}
    ELSE {HTTP_403_FORBIDDEN}

\* Tag.objects.filter(id__in=tag_ids): the stored tags named in the list.
exists_tags(tag_ids) ==
    {t \in DOMAIN tag : \E i \in DOMAIN tag_ids : tag_ids[i] = t}

\* The tag check of RecipeSerializer.validate: TRUE when it raises no
\* ValidationError.
validate_tags(tag_ids) == Cardinality(exists_tags(tag_ids)) = Len(tag_ids)

DO_NOTHING(table, field, ids) == table

\* on_delete=CASCADE of a ForeignKey `field`: the rows of the table that
\* are left when the objects `ids` are deleted.
CASCADE(table, field, ids) == {r \in table : r[field] \notin ids}

\* Recipe.delete() of the recipes `ids`, collected with their Favorite, Cart
\* and AmountIngredient rows, from the relation rows `table`.
delete_recipes(ids, table) ==
    /\ recipe' = [r \in DOMAIN recipe \ ids |-> recipe[r]]
    /\ amount' = CASCADE(amount, "recipe", ids)
    /\ rows' = [k \in Kinds |->
                   IF k \in RecipeKinds THEN CASCADE(table[k], "obj", ids)
                   ELSE table[k]]

\* RecipeSerializer.update with validated data: the tags are replaced when
\* the list is not empty, the author becomes the requesting user
\* (validate puts request.user into the data). The request repeats the
\* stored ingredients.
update(pk, u, tag_ids) ==
    recipe' = [recipe EXCEPT ![pk] =
                  [author |-> u,
                   tags |-> IF tag_ids # <<>>
                            THEN {tag_ids[i] : i \in DOMAIN tag_ids}
                            ELSE @.tags]]

\* RecipeViewSet retrieve, update, partial_update and destroy of
\* /recipes/{pk}/.
recipe_detail(method, u, pk, tag_ids) ==
    LET answer(status) ==
            response' = Response("recipe", method, u, pk, status, NoBody)
        same == UNCHANGED <<recipe, amount, rows>>
    IN
    /\ UNCHANGED <<users, profile, nextId>>
    /\ params' = [NoParams EXCEPT !.tags = tag_ids]
    /\ IF ~has_permission(method, u)
       THEN same /\ \E status \in Denied(u) : answer(status)
       ELSE IF ~get_object_or_404(DOMAIN recipe, pk)
       THEN same /\ answer(HTTP_404_NOT_FOUND)
       ELSE IF ~has_object_permission(method, u, recipe[pk])
       THEN same /\ \E status \in Denied(u) : answer(status)
       ELSE IF method \in SAFE_METHODS
       THEN same /\ answer(HTTP_200_OK)
       ELSE IF method \in DEL_METHODS
       THEN delete_recipes({pk}, rows) /\ answer(HTTP_204_NO_CONTENT)
       ELSE IF ~validate_tags(tag_ids)
       THEN same /\ answer(HTTP_400_BAD_REQUEST)
       ELSE /\ update(pk, u, tag_ids)
            /\ UNCHANGED <<amount, rows>>
            /\ answer(HTTP_200_OK)

\* MyUser.delete(): the user goes with the rows that point at it through a
\* ForeignKey with on_delete=CASCADE: Subscriptions (author, user),
\* Favorite and Cart (user) and Recipe (author), the recipes with their own
\* rows.
user_delete(u) ==
    LET authored == {r \in DOMAIN recipe : recipe[r].author = u}
        left == [k \in Kinds |->
                    IF k = "Subscriptions"
                    THEN CASCADE(CASCADE(rows[k], "user", {u}), "obj", {u})
                    ELSE CASCADE(rows[k], "user", {u})]
    IN  /\ users' = users \ {u}
        /\ profile' = [x \in DOMAIN profile \ {u} |-> profile[x]]
        /\ delete_recipes(authored, left)
        /\ response' = Response("MyUser.delete", "none", u, u, 0, NoBody)
        /\ UNCHANGED <<nextId, params>>

\* The rows a request found are remembered.
Lived ==
    /\ prevRows' = rows
    /\ prevRecipe' = recipe
    /\ prevAmount' = amount
    /\ UNCHANGED <<tag, proc, ingredient, lastAdded>>

\* The toggles and the shopping list of the users that are left, for the
\* recipes that were ever stored.
LifeToggle ==
    \E k \in RecipeKinds, m \in {"POST"} \cup DEL_METHODS, u \in users,
       pk \in RecipeIds :
        add_del_obj(k, m, u, pk) /\ Served

LifeSubscription ==
    \E u \in users, a \in users :
        SubscriptionsSave(u, a) /\ Served

DownloadShoppingCart ==
    \E u \in users \cup {AnonymousUser} :
        download_shopping_cart(u) /\ Served

RecipeDestroy ==
    \E u \in users, pk \in RecipeIds :
        recipe_detail("DELETE", u, pk, <<>>) /\ Lived

UserDelete ==
    \E u \in users : user_delete(u) /\ Lived

LifeNext ==
    \/ LifeToggle
    \/ LifeSubscription
    \/ DownloadShoppingCart
    \/ RecipeDestroy
    \/ UserDelete

SpecLife == Init /\ [][LifeNext]_vars

\* The requests to /recipes/{pk}/: the methods, and the tag lists of the
\* updates, which may name a tag that is not stored.
DETAIL_METHODS == {"GET", "HEAD", "DELETE"} \cup UPDATE_METHODS
TagIdLists == {<<>>, <<2>>, <<3>>, <<1, 2>>, <<1, 1>>, <<1, 3>>}

\* The flags the second user may have; the first user stays an ordinary
\* active user.
Flags == [is_staff : BOOLEAN, active : BOOLEAN]

\* Favorite and Cart rows of both users on both recipes.
StoredRows ==
    [k \in Kinds |->
        IF k = "Favorite" THEN {Row(1, 1, 2), Row(2, 2, 1)}
        ELSE IF k = "Cart" THEN {Row(1, 2, 2), Row(2, 1, 1)}
        ELSE {}]

RecipeInit ==
    /\ users = UserIds
    /\ recipe = RecipeRows
    /\ tag = TagRows
    /\ rows = StoredRows
    /\ nextId = [k \in Kinds |-> Cardinality(rows[k]) + 1]
    /\ response = NoResponse
    /\ prevRows = rows
    /\ proc = [p \in Procs |-> Idle]
    /\ params = NoParams
    /\ \E flags \in Flags : profile = [ProfileRows EXCEPT ![2] = flags]
    /\ ingredient = IngredientRows
    /\ amount = AmountIngredientRows
    /\ prevRecipe = recipe
    /\ prevAmount = amount
    /\ lastAdded = AddedPairs(rows)

RecipeRead ==
    \E m \in SAFE_METHODS \cap DETAIL_METHODS,
       u \in users \cup {AnonymousUser}, pk \in RequestRecipeIds :
        recipe_detail(m, u, pk, <<>>) /\ Lived

RecipeUpdate ==
    \E m \in UPDATE_METHODS, u \in users \cup {AnonymousUser},
       pk \in RequestRecipeIds, tag_ids \in TagIdLists :
        recipe_detail(m, u, pk, tag_ids) /\ Lived

RecipeDelete ==
    \E m \in DEL_METHODS, u \in users \cup {AnonymousUser},
       pk \in RequestRecipeIds :
        recipe_detail(m, u, pk, <<>>) /\ Lived

RecipeNext ==
    \/ RecipeRead
    \/ RecipeUpdate
    \/ RecipeDelete

SpecRecipe == RecipeInit /\ [][RecipeNext]_vars

\* -------------------------------------------------------- ingredient search

\* A character is the key that types it, the keyboard layout and the shift
\* key; Percent is the sign '%', Quoted(c) the percent-encoding of c.
Ru(k) == [layout |-> "ru", key |-> k, shift |-> FALSE]
En(k) == [layout |-> "en", key |-> k, shift |-> FALSE]
Shift(c) == [c EXCEPT !.shift = TRUE]
Percent == [layout |-> "sign", key |-> "%", shift |-> FALSE]
Quoted(c) == [c EXCEPT !.layout = "%ru"]

\* The letters of the ingredient names, in alphabetical order.
Letters == <<"f", "h", "c">>
LetterRank(k) == CHOOSE i \in DOMAIN Letters : Letters[i] = k

\* urllib.parse.unquote: every percent-encoded character is decoded, a '%'
\* that starts no encoding is kept.
unquote(name) ==
    [i \in DOMAIN name |->
        IF name[i].layout = "%ru" THEN [name[i] EXCEPT !.layout = "ru"]
        ELSE name[i]]

\* name.translate(incorrect_layout): a Latin letter becomes the Cyrillic
\* letter of the same key; the text of a percent-encoding is taken letter
\* by letter and is no encoding any more.
incorrect_layout(name) ==
    [i \in DOMAIN name |->
        IF name[i].layout = "en" THEN [name[i] EXCEPT !.layout = "ru"]
        ELSE IF name[i].layout = "%ru"
        THEN [name[i] EXCEPT !.layout = "garbled"]
        ELSE name[i]]

\* str.lower()
lower(name) == [i \in DOMAIN name |-> [name[i] EXCEPT !.shift = FALSE]]

\* The query as get_queryset searches for it.
normalize(name) ==
    lower(IF name[1].layout \in {"sign", "%ru"}
          THEN unquote(name)
          ELSE incorrect_layout(name))

\* name__istartswith, name__icontains
istartswith(text, q) ==
    /\ Len(q) <= Len(text)
    /\ lower(SubSeq(text, 1, Len(q))) = lower(q)
icontains(text, q) ==
    \E k \in 0 .. Len(text) - Len(q) :
        lower(SubSeq(text, k + 1, k + Len(q))) = lower(q)

\* The order of two names under Ingredient.Meta.ordering = ('name',).
RECURSIVE NameBefore(_, _)
NameBefore(a, b) ==
    IF b = <<>> THEN FALSE
    ELSE IF a = <<>> THEN TRUE
    ELSE IF a[1] # b[1] THEN LetterRank(a[1].key) < LetterRank(b[1].key)
    ELSE NameBefore(Tail(a), Tail(b))

\* The orders in which a queryset may return the ingredients `ids`: sorted
\* by name, equal names in any order.
RECURSIVE OrderedByName(_)
OrderedByName(ids) ==
    IF ids = {} THEN {<<>>}
    ELSE UNION {{<<m>> \o rest : rest \in OrderedByName(ids \ {m})} :
                    m \in {x \in ids :
                              \A y \in ids :
                                  ~NameBefore(ingredient[y].name,
                                              ingredient[x].name)}}

extend_all(start_queryset, cont_queryset) == start_queryset \o cont_queryset

\* start_queryset.extend(
\*     [ing for ing in cont_queryset if ing not in ingridients_set])
extend(start_queryset, cont_queryset) ==
    LET ingridients_set ==
            {start_queryset[i] : i \in DOMAIN start_queryset}
        fresh(ing) == ing \notin ingridients_set
    IN  start_queryset \o SelectSeq(cont_queryset, fresh)

\* IngredientViewSet.get_queryset: the lists it may return for ?name=...
ingredients_get_queryset(name) ==
    IF name = <<>> THEN OrderedByName(DOMAIN ingredient)
    ELSE LET q == normalize(name)
             starts == {i \in DOMAIN ingredient :
                           istartswith(ingredient[i].name, q)}
             conts == {i \in DOMAIN ingredient :
                          icontains(ingredient[i].name, q)}
         IN  {extend(start_queryset, cont_queryset) :
                 start_queryset \in OrderedByName(starts),
                 cont_queryset \in OrderedByName(conts)}

\* The stored ingredients the search runs over, and the characters of the
\* queries.
SearchIngredientRows ==
    (1 :> [name |-> <<Ru("f"), Ru("h")>>, measurement_unit |-> "g"])
    @@ (2 :> [name |-> <<Ru("h"), Ru("f")>>, measurement_unit |-> "g"])
    @@ (3 :> [name |-> <<Ru("c"), Ru("f"), Ru("h")>>,
              measurement_unit |-> "g"])
    @@ (4 :> [name |-> <<Ru("f")>>, measurement_unit |-> "g"])
    @@ (5 :> [name |-> <<Ru("f")>>, measurement_unit |-> "spoon"])
QueryChars ==
    {Ru("f"), Ru("h"), Shift(Ru("h")), En("f"), Shift(En("h")), Percent,
     Quoted(Ru("f"))}
MaxQueryLen == 2
Queries == UNION {[1 .. n -> QueryChars] : n \in 0 .. MaxQueryLen}

SearchInit ==
    /\ users = UserIds
    /\ recipe = RecipeRows
    /\ tag = TagRows
    /\ rows = [k \in Kinds |-> {}]
    /\ nextId = [k \in Kinds |-> 1]
    /\ response = NoResponse
    /\ prevRows = rows
    /\ proc = [p \in Procs |-> Idle]
    /\ params = NoParams
    /\ profile = ProfileRows
    /\ \E ids \in SUBSET DOMAIN SearchIngredientRows :
           ingredient = [i \in ids |-> SearchIngredientRows[i]]
    /\ amount = {}
    /\ prevRecipe = recipe
    /\ prevAmount = amount
    /\ lastAdded = AddedPairs(rows)

SearchIngredients ==
    \E name \in Queries :
    \E body \in ingredients_get_queryset(name) :
        /\ response.view = "none"
        /\ params' = [name |-> name]
        /\ response' = Response("ingredients", "GET", AnonymousUser, 0,
                                HTTP_200_OK, body)
        /\ UNCHANGED <<users, recipe, tag, rows, nextId, prevRows, proc,
                       profile, ingredient, amount, prevRecipe, prevAmount,
                       lastAdded>>

SearchNext == SearchIngredients

SpecSearch == SearchInit /\ [][SearchNext]_vars

\* ----------------------------------------------------------- tag validation

Space == [layout |-> "sign", key |-> " ", shift |-> FALSE]
Hash == [layout |-> "sign", key |-> "#", shift |-> FALSE]
Digit(k) == [layout |-> "digit", key |-> k, shift |-> FALSE]

\* The methods of str that the validation calls or could call.
StrMethods == {"strip", "lstrip", "rstrip", "lower", "upper"}

\* str.strip(chars)
RECURSIVE strip(_, _)
strip(text, chars) ==
    IF text = <<>> THEN text
    ELSE IF Head(text) \in chars THEN strip(Tail(text), chars)
    ELSE IF text[Len(text)] \in chars
    THEN strip(SubSeq(text, 1, Len(text) - 1), chars)
    ELSE text

\* str.upper()
upper(text) ==
    [i \in DOMAIN text |->
        IF text[i].layout \in {"ru", "en"} THEN Shift(text[i]) ELSE text[i]]

HexLen == 6

\* core.validators.hex_color_validator: six hexadecimal digits.
hex_color_validator(color) ==
    /\ Len(color) = HexLen
    /\ \A i \in DOMAIN color :
           \/ color[i].layout = "digit"
           \/ color[i].layout = "en"
              /\ color[i].key \in {"a", "b", "c", "d", "e", "f"}

\* core.validators.OneOfTwoValidator: the letters of the text are all of
\* one of the two alphabets.
OneOfTwoValidator(text) ==
    \A i, j \in DOMAIN text :
        text[i].layout \in {"ru", "en"} /\ text[i].layout = text[j].layout

\* TagSerializer.validate: "valid", or the exception it raises. The color
\* line calls str.sttrip.
TagSerializer_validate(data) ==
    LET name == lower(strip(data.name, {Space}))
        slug == lower(strip(data.slug, {Space}))
    IN  IF "sttrip" \notin StrMethods THEN "AttributeError"
        ELSE LET color == upper(strip(data.color, {Space, Hash}))
             IN  IF ~hex_color_validator(color) THEN "ValidationError"
                 ELSE IF ~OneOfTwoValidator(name) THEN "ValidationError"
                 ELSE IF \E t \in DOMAIN tag :
                             \/ tag[t].name = name
                             \/ tag[t].slug = slug
                             \/ tag[t].color = color
                 THEN "ValidationError"
                 ELSE "valid"

\* A color of one repeated digit.
Color(c) == [i \in 1 .. HexLen |-> c]

\* The stored tag the validation runs against, as Tag.save() stores it:
\* name and slug in lower case, color in upper case.
StoredTagRows ==
    1 :> [name |-> <<Ru("f"), Ru("h")>>,
          slug |-> <<En("f"), En("h")>>,
          color |-> Color(Shift(En("a")))]

\* The data of the tags to validate.
TagNames ==
    {<<Ru("f"), Ru("h")>>, <<Space, Shift(Ru("f")), Ru("h"), Space>>,
     <<Ru("h")>>, <<Shift(Ru("c")), Ru("h")>>, <<Ru("h"), En("f")>>}
TagSlugs ==
    {<<En("f"), En("h")>>, <<Shift(En("f")), En("h"), Space>>,
     <<En("h")>>, <<Space, En("c")>>, <<En("c"), Shift(En("f"))>>}
TagColors ==
    {Color(En("a")), <<Hash>> \o Color(Shift(En("a"))),
     <<Space, Hash>> \o Color(En("b")), Color(Digit("0")), <<En("a")>>}

TagInit ==
    /\ users = UserIds
    /\ recipe = RecipeRows
    /\ tag = StoredTagRows
    /\ rows = [k \in Kinds |-> {}]
    /\ nextId = [k \in Kinds |-> 1]
    /\ response = NoResponse
    /\ prevRows = rows
    /\ proc = [p \in Procs |-> Idle]
    /\ params = NoParams
    /\ profile = ProfileRows
    /\ ingredient = IngredientRows
    /\ amount = AmountIngredientRows
    /\ prevRecipe = recipe
    /\ prevAmount = amount
    /\ lastAdded = AddedPairs(rows)

ValidateTag ==
    \E name \in TagNames, slug \in TagSlugs, color \in TagColors :
        /\ params' = [name |-> name, slug |-> slug, color |-> color]
        /\ response' = Response("TagSerializer.validate", "POST", 2, 0, 0,
                                TagSerializer_validate(params'))
        /\ UNCHANGED <<users, recipe, tag, rows, nextId, prevRows, proc,
                       profile, ingredient, amount, prevRecipe, prevAmount,
                       lastAdded>>

TagNext == ValidateTag

SpecTag == TagInit /\ [][TagNext]_vars

\* -------------------------------------------------------- serialized flags

\* RecipeSerializer.get_is_favorited with user.carts in place of
\* user.favorites.
get_is_favorited_carts(u, r) ==
    IF u = AnonymousUser THEN FALSE
    ELSE \E x \in rows["Cart"] : x.user = u /\ x.obj = r

\* RecipeSerializer.get_is_favorited: False for an anonymous user, otherwise
\* user.favorites.filter(recipe=recipe).exists().
get_is_favorited(u, r) ==
    IF u = AnonymousUser THEN FALSE
    ELSE \E x \in rows["Favorite"] : x.user = u /\ x.obj = r

\* RecipeSerializer.get_is_in_shopping_cart: False for an anonymous user,
\* otherwise user.carts.filter(recipe=recipe).exists().
get_is_in_shopping_cart(u, r) ==
    IF u = AnonymousUser THEN FALSE
    ELSE \E x \in rows["Cart"] : x.user = u /\ x.obj = r

\* UserSerializer.get_is_subscribed: False for an anonymous user and for the
\* user itself, otherwise user.subscriptions.filter(author=obj).exists().
get_is_subscribed(u, obj) ==
    IF u = AnonymousUser \/ u = obj THEN FALSE
    ELSE \E x \in rows["Subscriptions"] : x.user = u /\ x.obj = obj

\* The flags among the fields of RecipeSerializer; the author is serialized
\* by the nested UserSerializer.
RecipeSerializer(u, pk) ==
    [is_favorited |-> get_is_favorited(u, pk),
     is_in_shopping_cart |-> get_is_in_shopping_cart(u, pk),
     author |-> [id |-> recipe[pk].author,
                 is_subscribed |-> get_is_subscribed(u, recipe[pk].author)]]

\* GET /recipes/<pk>/ of RecipeViewSet: reading is open to everyone
\* (AuthorStaffOrReadOnly); the recipe is looked up, then serialized.
retrieve(u, pk) ==
    /\ UNCHANGED <<rows, nextId>>
    /\ IF ~get_object_or_404(DOMAIN recipe, pk)
       THEN response' = Response("retrieve", "GET", u, pk,
                                 HTTP_404_NOT_FOUND, NoBody)
       ELSE response' = Response("retrieve", "GET", u, pk, HTTP_200_OK,
                                 RecipeSerializer(u, pk))

RecipeRetrieve ==
    \E u \in UserIds \cup {AnonymousUser}, pk \in RequestRecipeIds :
        retrieve(u, pk) /\ Served

\* The toggles, the subscriptions stored by the model, and the recipe read
\* in between.
FlagsNext ==
    \/ LifeToggle
    \/ Subscribe
    \/ LifeSubscription
    \/ RecipeRetrieve

SpecFlags == Init /\ [][FlagsNext]_vars

\* ------------------------------------------------- what a response is about

IsToggle == response.view \in Kinds

ObjectExists ==
    IF response.view = "Subscriptions"
    THEN response.obj \in users
    ELSE response.obj \in DOMAIN recipe

Linked(table, u, o) == \E r \in table : r.user = u /\ r.obj = o

LinkedBefore == Linked(prevRows[response.view], response.user, response.obj)
LinkedAfter == Linked(rows[response.view], response.user, response.obj)

\* A subscription of a user to themselves is no pair a toggle may link.
PairAllowed == response.view = "Subscriptions" => response.obj # response.user

\* ------------------------------------------------------------------ claims

\* C1: in every reachable state each of Favorite, Cart and Subscriptions
\* holds at most one row per (user, object) pair.
AtMostOneRowPerPair ==
    \A k \in Kinds : \A r1, r2 \in rows[k] :
        (r1.user = r2.user /\ r1.obj = r2.obj) => r1 = r2

\* C1 witness: every table holds a row and a second add for a linked pair
\* has just been answered.
DuplicateAddAttempted ==
    /\ \A k \in Kinds : rows[k] # {}
    /\ response.view \in RecipeKinds
    /\ response.method \in ADD_METHODS
    /\ LinkedBefore

\* C2 (as claimed): an add (GET or POST) for an existing object that the user
\* is not linked to creates the row and returns 201, for every kind.
AddCreatesRow ==
    (/\ IsToggle
     /\ response.method \in ADD_METHODS
     /\ ObjectExists
     /\ PairAllowed
     /\ ~LinkedBefore)
    => (response.status = HTTP_201_CREATED /\ LinkedAfter)

\* C2 for the kinds add_del_obj serves: holds of Favorite and Cart.
AddCreatesRecipeRow ==
    response.view \in RecipeKinds => AddCreatesRow

\* C3 (as claimed): a remove (DELETE) for an existing object the user is
\* linked to deletes the row and returns 204 with an empty body, for every
\* kind.
RemoveDeletesRow ==
    (/\ IsToggle
     /\ response.method \in DEL_METHODS
     /\ ObjectExists
     /\ LinkedBefore)
    => (/\ response.status = HTTP_204_NO_CONTENT
        /\ response.body = NoBody
        /\ ~LinkedAfter)

\* C3 for the kinds add_del_obj serves: holds of Favorite and Cart.
RemoveDeletesRecipeRow ==
    response.view \in RecipeKinds => RemoveDeletesRow

\* C4 (as claimed): an add for a linked pair and a remove for a pair not
\* linked return 400 and leave every relation row as it was, for every kind.
ConflictIsBadRequest ==
    (/\ IsToggle
     /\ ObjectExists
     /\ PairAllowed
     /\ \/ response.method \in ADD_METHODS /\ LinkedBefore
        \/ response.method \in DEL_METHODS /\ ~LinkedBefore)
    => (response.status = HTTP_400_BAD_REQUEST /\ rows = prevRows)

\* C4 for the kinds add_del_obj serves: holds of Favorite and Cart.
ConflictIsBadRequestRecipe ==
    response.view \in RecipeKinds => ConflictIsBadRequest

\* C5: a toggle whose object id names no stored recipe or user is answered
\* 404 and creates or deletes no relation row.
MissingObjectIsNotFound ==
    (IsToggle /\ ~ObjectExists)
    => (response.status = HTTP_404_NOT_FOUND /\ rows = prevRows)

\* C5 witness: a favorite toggle for a missing recipe was answered 404 while
\* other rows are stored.
MissingRecipeAnswered ==
    /\ response.view = "Favorite"
    /\ response.obj \notin DOMAIN recipe
    /\ response.status = HTTP_404_NOT_FOUND
    /\ rows["Favorite"] # {}

\* C6: a successful toggle (201, 204) changes exactly one row, the one of the
\* request's kind that links its user to its object; every other response
\* leaves all rows as they were.
ToggleChangesOneRow ==
    IsToggle =>
        LET k == response.view
            mine(r) == r.user = response.user /\ r.obj = response.obj
            others == \A j \in Kinds \ {k} : rows[j] = prevRows[j]
        IN  IF response.status = HTTP_201_CREATED
            THEN /\ others
                 /\ \E r \in rows[k] \ prevRows[k] :
                        mine(r) /\ rows[k] = prevRows[k] \cup {r}
            ELSE IF response.status = HTTP_204_NO_CONTENT
            THEN /\ others
                 /\ \E r \in prevRows[k] :
                        mine(r) /\ rows[k] = prevRows[k] \ {r}
            ELSE rows = prevRows

\* C6 witness: a row was removed while the same user keeps another row of
\* that kind and another kind holds rows too.
RemovedAmongOthers ==
    /\ response.view \in RecipeKinds
    /\ response.status = HTTP_204_NO_CONTENT
    /\ \E r \in rows[response.view] : r.user = response.user
    /\ \E j \in Kinds \ {response.view} : rows[j] # {}

\* Two requests of the specification SpecConc that ask for the same thing.
SameRequest(p, q) ==
    /\ proc[p].view = proc[q].view
    /\ proc[p].user = proc[q].user
    /\ proc[p].obj = proc[q].obj
    /\ proc[p].method = proc[q].method

\* C7: of two identical add requests in flight together at most one is
\* answered 201, and the pair never has two rows.
LostRaceIsRejected ==
    /\ AtMostOneRowPerPair
    /\ \A p, q \in Procs :
        (/\ p # q
         /\ SameRequest(p, q)
         /\ proc[p].method \in ADD_METHODS
         /\ proc[p].status = HTTP_201_CREATED)
        => proc[q].status # HTTP_201_CREATED

\* C7 witness: both identical adds passed the existence check, one created
\* the row and the other's INSERT was refused.
RaceLost ==
    \E p, q \in Procs :
        /\ p # q
        /\ SameRequest(p, q)
        /\ proc[p].method \in ADD_METHODS
        /\ proc[p].status = HTTP_201_CREATED
        /\ proc[q].status = HTTP_500_SERVER_ERROR

\* C8: a subscribe add naming the requesting user as the author is never
\* answered with success, and no Subscriptions row has author = user.
NoSelfSubscription ==
    /\ \A r \in rows["Subscriptions"] : r.obj # r.user
    /\ (/\ response.view = "Subscriptions"
        /\ response.method \in ADD_METHODS
        /\ response.obj = response.user)
       => response.status \notin
              {HTTP_200_OK, HTTP_201_CREATED, HTTP_204_NO_CONTENT}

\* C8 witness: a subscribe add to oneself was answered while subscriptions
\* are stored.
SelfSubscribeAnswered ==
    /\ response.view = "Subscriptions"
    /\ response.method \in ADD_METHODS
    /\ response.obj = response.user
    /\ response.status = HTTP_500_SERVER_ERROR
    /\ rows["Subscriptions"] # {}

\* C9 (as claimed): the subscriptions list of an authenticated user is
\* answered with exactly the authors the user is subscribed to.
SubscriptionsListed ==
    (response.view = "subscriptions" /\ response.user # AnonymousUser)
    => /\ response.status = HTTP_200_OK
       /\ {response.body[i] : i \in DOMAIN response.body}
              = {r.obj : r \in {x \in rows["Subscriptions"] :
                                    x.user = response.user}}

\* The recipes the tags and author parameters leave.
TagAuthorFiltered ==
    {r \in DOMAIN recipe :
        /\ params.tags # {} =>
               \E t \in recipe[r].tags : tag[t].slug \in params.tags
        /\ params.author # <<>> => recipe[r].author = params.author[1]}

Listed == {response.body[i] : i \in DOMAIN response.body}

\* C10: for an authenticated user a true-like is_favorited (and no cart
\* filter) lists exactly the tag-and-author-filtered recipes in that user's
\* favorites; for an anonymous user both parameters are ignored and the
\* list is the tag-and-author-filtered set.
FavoritedFilter ==
    response.view = "recipes" =>
        /\ (/\ response.user # AnonymousUser
            /\ params.is_favorited \in SYMBOL_TRUE_SEARCH
            /\ params.is_in_shopping_cart
                   \notin SYMBOL_TRUE_SEARCH \cup SYMBOL_FALSE_SEARCH)
           => Listed = {r \in TagAuthorFiltered :
                           Linked(rows["Favorite"], response.user, r)}
        /\ response.user = AnonymousUser => Listed = TagAuthorFiltered

\* C10 witness: an authenticated user's is_favorited=1 list keeps a favorite
\* and drops a recipe that is in the user's cart but not a favorite.
FavoritedFilterApplied ==
    /\ response.view = "recipes"
    /\ response.user # AnonymousUser
    /\ params.is_favorited \in SYMBOL_TRUE_SEARCH
    /\ params.is_in_shopping_cart = ""
    /\ Listed # {}
    /\ \E r \in TagAuthorFiltered \ Listed :
           Linked(rows["Cart"], response.user, r)

\* The recipes the list holds when asked with the parameters p.
ListedWith(p) ==
    LET body == Evaluate(get_queryset(response.user, p))
    IN  {body[i] : i \in DOMAIN body}

\* What a tri-state parameter of the answered request leaves of the list
\* asked without it.
TriStateOf(field, k) ==
    LET absent == ListedWith([params EXCEPT ![field] = ""])
    IN  IF params[field] \in SYMBOL_TRUE_SEARCH
        THEN {r \in absent : Linked(rows[k], response.user, r)}
        ELSE IF params[field] \in SYMBOL_FALSE_SEARCH
        THEN {r \in absent : ~Linked(rows[k], response.user, r)}
        ELSE absent

\* The lists asked with a true-like and a false-like token split the list
\* asked without the parameter.
SplitsBy(field) ==
    \A yes \in SYMBOL_TRUE_SEARCH, no \in SYMBOL_FALSE_SEARCH :
        LET kept == ListedWith([params EXCEPT ![field] = yes])
            dropped == ListedWith([params EXCEPT ![field] = no])
        IN  /\ kept \cap dropped = {}
            /\ kept \cup dropped = ListedWith([params EXCEPT ![field] = ""])

\* C11: for an authenticated user is_in_shopping_cart and is_favorited are
\* tri-state: a true-like token keeps the recipes in the user's cart or
\* favorites, a false-like token keeps the others, anything else filters
\* nothing; the true and the false list are disjoint and together make the
\* list asked without the parameter.
TriStateFilter ==
    (response.view = "recipes" /\ response.user # AnonymousUser) =>
        /\ Listed = TriStateOf("is_in_shopping_cart", "Cart")
        /\ Listed = TriStateOf("is_favorited", "Favorite")
        /\ SplitsBy("is_in_shopping_cart")
        /\ SplitsBy("is_favorited")

\* C11 witness: a list asked with both parameters false-like holds a recipe
\* and leaves out one of the user's cart and one of the user's favorites.
BothExcluded ==
    /\ response.view = "recipes"
    /\ response.user # AnonymousUser
    /\ params.is_in_shopping_cart \in SYMBOL_FALSE_SEARCH
    /\ params.is_favorited \in SYMBOL_FALSE_SEARCH
    /\ params.tags = {}
    /\ params.author = <<>>
    /\ \E r \in DOMAIN recipe : Linked(rows["Cart"], response.user, r)
    /\ \E r \in DOMAIN recipe : Linked(rows["Favorite"], response.user, r)
    /\ Listed # DOMAIN recipe

\* C12: the recipe list never holds a recipe twice, whatever the
\* parameters; asked with tags alone it holds exactly the recipes with at
\* least one tag whose slug is in the list.
NoRecipeTwice ==
    response.view = "recipes" =>
        /\ \A i, j \in DOMAIN response.body :
               response.body[i] = response.body[j] => i = j
        /\ (/\ params.tags # {}
            /\ params.author = <<>>
            /\ params.is_in_shopping_cart = ""
            /\ params.is_favorited = "")
           => Listed = {r \in DOMAIN recipe :
                           \E t \in recipe[r].tags : tag[t].slug \in params.tags}

\* C12 witness: a list asked with two tags and both tri-state parameters
\* true-like holds a recipe that carries both tags, in the cart and the
\* favorites of the user.
TwoTagsMatchedOnce ==
    /\ response.view = "recipes"
    /\ response.user # AnonymousUser
    /\ Cardinality(params.tags) = Cardinality(DOMAIN tag)
    /\ params.is_in_shopping_cart \in SYMBOL_TRUE_SEARCH
    /\ params.is_favorited \in SYMBOL_TRUE_SEARCH
    /\ \E r \in Listed :
           {tag[t].slug : t \in recipe[r].tags} = params.tags

\* The shopping list of a user: one line per (name, unit) of the
\* ingredients of the recipes in the user's cart, with the total amount.
ShoppingListOf(u) ==
    LET mine == {a \in amount : Linked(rows["Cart"], u, a.recipe)}
        named(a, n, m) == /\ ingredient[a.ingredients].name = n
                          /\ ingredient[a.ingredients].measurement_unit = m
    IN  {[ingredient |-> ingredient[i].name,
          measure |-> ingredient[i].measurement_unit,
          amount |-> Sum({a \in mine :
                             named(a, ingredient[i].name,
                                   ingredient[i].measurement_unit)})] :
            i \in {a.ingredients : a \in mine}}

IsReport ==
    /\ response.view = "download_shopping_cart"
    /\ response.status = HTTP_200_OK

\* C13 (as claimed): the report holds exactly the lines of the shopping
\* list of the requesting user: the amounts of the recipes in the user's
\* cart, summed per (name, unit), and nothing of a recipe outside the cart.
ReportSumsCart == IsReport => response.body = ShoppingListOf(response.user)

\* C13 where the primary keys of the user's Cart rows happen to be the ids
\* of the recipes in the cart: there the report is the shopping list.
ReportSumsCartRowIds ==
    (IsReport /\ carts_values_id(response.user)
                     = {r.obj : r \in {x \in rows["Cart"] :
                                           x.user = response.user}})
    => response.body = ShoppingListOf(response.user)

\* C14: the shopping list of a user with no recipe in the cart is answered
\* 400 with no report, that of a user with a recipe in the cart is answered
\* with the report; neither changes a relation, a recipe or an amount.
EmptyCartIsBadRequest ==
    (response.view = "download_shopping_cart"
     /\ response.user # AnonymousUser)
    => /\ IF \E r \in DOMAIN prevRecipe :
                 Linked(rows["Cart"], response.user, r)
          THEN response.status = HTTP_200_OK
          ELSE response.status = HTTP_400_BAD_REQUEST
               /\ response.body = NoBody
       /\ rows = prevRows
       /\ recipe = prevRecipe
       /\ amount = prevAmount

\* C14 witness: a user with an empty cart was answered 400 while another
\* user's cart and the user's own favorites hold recipes.
EmptyCartAmongOthers ==
    /\ response.view = "download_shopping_cart"
    /\ response.status = HTTP_400_BAD_REQUEST
    /\ rows["Cart"] # {}
    /\ \E r \in rows["Favorite"] : r.user = response.user

\* C15: the list a non-empty ingredient query is answered with holds no
\* ingredient twice, holds exactly the ingredients whose name contains the
\* normalized query, every ingredient whose name starts with it before every
\* other one, and each of the two groups sorted by name.
PrefixMatchesFirst ==
    (response.view = "ingredients" /\ params.name # <<>>) =>
        LET q == normalize(params.name)
            body == response.body
            name(i) == ingredient[body[i]].name
            starts(i) == istartswith(name(i), q)
        IN  /\ \A i, j \in DOMAIN body : body[i] = body[j] => i = j
            /\ {body[i] : i \in DOMAIN body}
                   = {x \in DOMAIN ingredient :
                         icontains(ingredient[x].name, q)}
            /\ \A i, j \in DOMAIN body :
                   i < j =>
                       /\ starts(j) => starts(i)
                       /\ (starts(i) <=> starts(j))
                              => ~NameBefore(name(j), name(i))

\* C15 witness: a query typed in the Latin layout is answered with a name
\* that starts with it followed by a name that only contains it and sorts
\* before the first.
SubstringMatchMovedBack ==
    /\ response.view = "ingredients"
    /\ \E c \in DOMAIN params.name : params.name[c].layout = "en"
    /\ \E i, j \in DOMAIN response.body :
           /\ i < j
           /\ NameBefore(ingredient[response.body[j]].name,
                         ingredient[response.body[i]].name)

\* The tag data of the answered validation, normalized: name and slug
\* trimmed and in lower case, color without spaces and '#' and in upper
\* case.
NormalizedTag ==
    [name |-> lower(strip(params.name, {Space})),
     slug |-> lower(strip(params.slug, {Space})),
     color |-> upper(strip(params.color, {Space, Hash}))]

TagCollides ==
    \E t \in DOMAIN tag :
        \/ tag[t].name = NormalizedTag.name
        \/ tag[t].slug = NormalizedTag.slug
        \/ tag[t].color = NormalizedTag.color

TagWellFormed ==
    /\ hex_color_validator(NormalizedTag.color)
    /\ OneOfTwoValidator(NormalizedTag.name)

\* C16 (as claimed): the validation of a tag raises a validation error when
\* the normalized name, slug or color is that of a stored tag, and accepts
\* a well-formed tag that collides with none.
TagValidationDecides ==
    response.view = "TagSerializer.validate" =>
        /\ TagCollides => response.body = "ValidationError"
        /\ (TagWellFormed /\ ~TagCollides) => response.body = "valid"

\* An update of a stored recipe that got as far as the validation.
IsValidated ==
    /\ response.view = "recipe"
    /\ response.method \in UPDATE_METHODS
    /\ response.status \in {HTTP_200_OK, HTTP_400_BAD_REQUEST}

\* C17 (as claimed): the validation rejects an update exactly when its tag
\* list names a tag that is not stored, and a rejected update changes no
\* recipe; a list of stored tags passes, also when it repeats one or is
\* empty.
TagCheckRejectsMissing ==
    IsValidated =>
        /\ response.status = HTTP_400_BAD_REQUEST
               <=> \E i \in DOMAIN params.tags :
                       params.tags[i] \notin DOMAIN tag
        /\ response.status = HTTP_400_BAD_REQUEST => recipe = prevRecipe

\* C17 for the lists that name no tag twice: there the validation rejects
\* exactly the lists with a tag that is not stored.
TagCheckRejectsMissingOfDistinct ==
    (IsValidated
     /\ \A i, j \in DOMAIN params.tags :
            params.tags[i] = params.tags[j] => i = j)
    => TagCheckRejectsMissing

\* The requester may change the recipe of the answered request: an
\* authenticated active user who is its author or is staff.
MayMutate ==
    /\ response.user # AnonymousUser
    /\ profile[response.user].active
    /\ \/ prevRecipe[response.obj].author = response.user
       \/ profile[response.user].is_staff

Unchanged == recipe = prevRecipe /\ amount = prevAmount /\ rows = prevRows

\* C18: a request on a stored recipe changes something only when it is not
\* a GET and comes from an authenticated active user who is the author or
\* staff; a request with another method than GET from anyone else is
\* denied; a GET is answered to everyone.
OnlyAuthorOrStaffMutates ==
    (response.view = "recipe" /\ response.obj \in DOMAIN prevRecipe) =>
        /\ ~Unchanged => (response.method # "GET" /\ MayMutate)
        /\ (response.method # "GET" /\ ~MayMutate)
               => /\ response.status
                         \in {HTTP_401_UNAUTHORIZED, HTTP_403_FORBIDDEN}
                  /\ Unchanged
        /\ response.method = "GET" => response.status = HTTP_200_OK

\* C18 witness: the author of a recipe, not active, and not the author of
\* the other recipe that a staff user changed before, was denied.
InactiveAuthorDenied ==
    /\ response.view = "recipe"
    /\ response.obj \in DOMAIN recipe
    /\ response.user = recipe[response.obj].author
    /\ ~profile[response.user].active
    /\ response.method \in UPDATE_METHODS \cup DEL_METHODS
    /\ response.status = HTTP_403_FORBIDDEN
    /\ recipe # RecipeRows

\* The author of a recipe whose author was set to null.
NULL == -1

\* C19 (as claimed): the deletion of a user leaves every recipe the user
\* authored stored, with no author, and with its tags, its amounts and the
\* Favorite and Cart rows of the other users.
AuthorDeletionKeepsRecipes ==
    response.view = "MyUser.delete" =>
        \A r \in DOMAIN prevRecipe :
            prevRecipe[r].author = response.user =>
                /\ r \in DOMAIN recipe
                /\ recipe[r].author = NULL
                /\ recipe[r].tags = prevRecipe[r].tags
                /\ {a \in amount : a.recipe = r}
                       = {a \in prevAmount : a.recipe = r}
                /\ \A k \in RecipeKinds :
                       {x \in rows[k] : x.obj = r}
                           = {x \in prevRows[k] :
                                 x.obj = r /\ x.user # response.user}

\* C20: every Favorite and Cart row names a stored recipe and a stored
\* user, every AmountIngredient row a stored recipe, every Subscriptions
\* row two stored users.
NoDanglingRows ==
    /\ \A k \in RecipeKinds : \A r \in rows[k] :
           r.obj \in DOMAIN recipe /\ r.user \in users
    /\ \A r \in rows["Subscriptions"] : r.obj \in users /\ r.user \in users
    /\ \A a \in amount : a.recipe \in DOMAIN recipe

\* C20 witness: a user was deleted who had a subscriber and a recipe that
\* another user had toggled, and a row of another user is left.
RowsRemovedWithUser ==
    /\ response.view = "MyUser.delete"
    /\ \E r \in prevRows["Subscriptions"] : r.obj = response.user
    /\ \E k \in RecipeKinds : \E r \in prevRows[k] :
           /\ r.user # response.user
           /\ prevRecipe[r.obj].author = response.user
    /\ \E k \in RecipeKinds : rows[k] # {}
    /\ amount # {}
\* C21: the serialized flags agree with the toggle state. A recipe read by
\* an authenticated user u shows is_favorited (is_in_shopping_cart) true
\* exactly when a Favorite (Cart) row links u to the recipe, which is exactly
\* when u's last successful toggle of that kind on the recipe was an add;
\* is_subscribed of the author a is true exactly when a Subscriptions row
\* links u to a and a is not u; an anonymous reader gets all three false.
IsRecipeRead == response.view = "retrieve" /\ response.status = HTTP_200_OK
FlagsAgreeWithToggles ==
    /\ \A k \in RecipeKinds, u \in UserIds, r \in RecipeIds :
           Linked(rows[k], u, r) <=> <<u, r>> \in lastAdded[k]
    /\ IsRecipeRead =>
        LET u == response.user
            r == response.obj
            a == response.body.author.id
        IN  /\ a = recipe[r].author
            /\ response.body.is_favorited
                   <=> (u # AnonymousUser /\ Linked(rows["Favorite"], u, r)
                        /\ <<u, r>> \in lastAdded["Favorite"])
            /\ response.body.is_in_shopping_cart
                   <=> (u # AnonymousUser /\ Linked(rows["Cart"], u, r)
                        /\ <<u, r>> \in lastAdded["Cart"])
            /\ response.body.author.is_subscribed
                   <=> (u # AnonymousUser /\ a # u
                        /\ Linked(rows["Subscriptions"], u, a))
            /\ u = AnonymousUser =>
                   /\ ~response.body.is_favorited
                   /\ ~response.body.is_in_shopping_cart
                   /\ ~response.body.author.is_subscribed

\* The one favourite ever added was removed again; a recipe in the cart of a
\* subscriber of its author is read by that user: only is_favorited is
\* false.
FlagsReadAfterToggles ==
    /\ IsRecipeRead
    /\ response.user # AnonymousUser
    /\ nextId["Favorite"] > 1
    /\ rows["Favorite"] = {}
    /\ ~response.body.is_favorited
    /\ response.body.is_in_shopping_cart
    /\ response.body.author.is_subscribed

\* The rows of kind k that were deleted: the ids the table's sequence gave
\* out that are no longer stored.
RowsDeleted(k) == (nextId[k] - 1) - Cardinality(rows[k])

\* The requests in flight that removed from kind k and were answered 204.
Removed(k) ==
    {p \in Procs : /\ proc[p].view = k
                   /\ proc[p].method \in DEL_METHODS
                   /\ proc[p].status = HTTP_204_NO_CONTENT}

\* C22: of two identical remove requests in flight together against one
\* stored row at most one is answered 204, and there are never more 204
\* answers than rows deleted.
AtMostOneRemoveSucceeds ==
    /\ \A p, q \in Procs :
        (/\ p # q
         /\ SameRequest(p, q)
         /\ proc[p].method \in DEL_METHODS
         /\ proc[p].status = HTTP_204_NO_CONTENT)
        => proc[q].status # HTTP_204_NO_CONTENT
    /\ \A k \in RecipeKinds : Cardinality(Removed(k)) <= RowsDeleted(k)

====
